---- MODULE Spec2Model ----
(***************************************************************************)
(* Model of the calculation engine of cable_calculator.py                  *)
(* (calculate_voltage_drop, determine_cores_required, the catalogue        *)
(* CABLE_DATA / ALPHA_COPPER) and of CableCalculatorGUI.calculate.         *)
(*                                                                         *)
(* Python floats are modelled as exact rationals <<num, den>> in lowest    *)
(* terms with den > 0; every arithmetic step of the source is one          *)
(* rational operation here, in the order the source performs it.           *)
(***************************************************************************)
EXTENDS Integers, Sequences, FiniteSets, TLC

----------------------------------------------------------------------------
(* Bounds of the explored input space *)

MaxLenUnits == 4
MaxCores == 3
MaxScale == 3

----------------------------------------------------------------------------
(* Exact rational arithmetic *)

Abs(i) == IF i < 0 THEN -i ELSE i

RECURSIVE GCD(_, _)
GCD(a, b) == IF b = 0 THEN a ELSE GCD(b, a % b)

Rat(n, d) ==
    IF n = 0 THEN <<0, 1>>
    ELSE LET g == GCD(Abs(n), Abs(d))
             s == IF d < 0 THEN -1 ELSE 1
         IN  <<s * (n \div g), s * (d \div g)>>

Q(i) == <<i, 1>>

RMul(x, y) ==
    IF x[1] = 0 \/ y[1] = 0 THEN <<0, 1>>
    ELSE LET g1 == GCD(Abs(x[1]), y[2])
             g2 == GCD(Abs(y[1]), x[2])
         IN  <<(x[1] \div g1) * (y[1] \div g2), (x[2] \div g2) * (y[2] \div g1)>>

RInv(x) == IF x[1] > 0 THEN <<x[2], x[1]>> ELSE <<-x[2], -x[1]>>

RDiv(x, y) == RMul(x, RInv(y))

RAdd(x, y) ==
    LET g == GCD(x[2], y[2])
    IN  Rat(x[1] * (y[2] \div g) + y[1] * (x[2] \div g), (x[2] \div g) * y[2])

RNeg(x) == <<-x[1], x[2]>>

RSub(x, y) == RAdd(x, RNeg(y))

RLeq(x, y) ==
    LET g == GCD(x[2], y[2])
    IN  x[1] * (y[2] \div g) <= y[1] * (x[2] \div g)

RLt(x, y) == ~RLeq(y, x)

RAbs(x) == <<Abs(x[1]), x[2]>>

Zero == Q(0)
Half == <<1, 2>>

(* Python 3 round(): nearest integer, ties to the even one; int() of the
   result is the same integer. *)
PyRound(x) ==
    LET q == x[1] \div x[2]
        r == x[1] % x[2]
    IN  IF 2 * r < x[2] THEN q
        ELSE IF 2 * r > x[2] THEN q + 1
        ELSE IF q % 2 = 0 THEN q ELSE q + 1

PyMax(a, b) == IF b > a THEN b ELSE a

----------------------------------------------------------------------------
(* Module-level data, lines 9-22 *)

(* lines 9-19 with the Cat5e digits transposed *)
CableDataTransposed ==
    [alarm   |-> ("18 AWG" :> Rat(209, 10000)) @@ ("22 AWG" :> Rat(333, 10000))
                 @@ ("24 AWG" :> Rat(529, 10000)),
     network |-> ("Cat5e" :> Rat(983, 10000)) @@ ("Cat6" :> Rat(700, 10000))]

CableDataInit ==
    [alarm   |-> ("18 AWG" :> Rat(209, 10000)) @@ ("22 AWG" :> Rat(333, 10000))
                 @@ ("24 AWG" :> Rat(529, 10000)),
     network |-> ("Cat5e" :> Rat(938, 10000)) @@ ("Cat6" :> Rat(700, 10000))]

AlphaCopperInit == Rat(393, 100000)

VARIABLES CABLE_DATA, ALPHA_COPPER, call, memo,
          forward_mode, results_labels, messagebox, lastCalc

vars == <<CABLE_DATA, ALPHA_COPPER, call, memo,
          forward_mode, results_labels, messagebox, lastCalc>>

----------------------------------------------------------------------------
(* Outcomes of a Python call: a raised exception, or a returned value
   together with the resistance the function looked up and, for the solver,
   whether it divided by required_current (line 83). A float division by
   zero raises ZeroDivisionError. *)

Raise(exc) == [kind |-> "raise", exc |-> exc]

PyInt(n) == [type |-> "int", n |-> n]

(* float('inf') *)
PyInf == [type |-> "float", inf |-> TRUE]

----------------------------------------------------------------------------
(* calculate_voltage_drop, lines 24-54 *)

(* line 46 (repeated verbatim at line 76), with the precedence slip
   1 + ALPHA_COPPER * temp_c - 20 *)
resistance_per_meter_at_temp_unparenthesised(resistance_per_meter_at_20c, temp_c) ==
    RMul(resistance_per_meter_at_20c,
         RSub(RAdd(Q(1), RMul(ALPHA_COPPER, temp_c)), Q(20)))

(* line 46, repeated verbatim at line 76 *)
resistance_per_meter_at_temp(resistance_per_meter_at_20c, temp_c) ==
    RMul(resistance_per_meter_at_20c,
         RAdd(Q(1), RMul(ALPHA_COPPER, RSub(temp_c, Q(20)))))

(* line 51 without the division by num_cores *)
total_resistance_single_core(resistance_at_temp, length_m, num_cores) ==
    RMul(RMul(resistance_at_temp, length_m), Q(2))

(* line 51; num_cores # 0 *)
total_resistance(resistance_at_temp, length_m, num_cores) ==
    RDiv(RMul(RMul(resistance_at_temp, length_m), Q(2)), Q(num_cores))

calculate_voltage_drop(length_m, current_a, cable_type, conductor_spec, num_cores, temp_c) ==
    IF cable_type \notin DOMAIN CABLE_DATA
       \/ conductor_spec \notin DOMAIN CABLE_DATA[cable_type]
    THEN Raise("ValueError")
    ELSE LET resistance_per_meter_at_20c == CABLE_DATA[cable_type][conductor_spec]
             resistance_at_temp ==
                 resistance_per_meter_at_temp(resistance_per_meter_at_20c, temp_c)
         IN  IF num_cores = 0
             THEN Raise("ZeroDivisionError")
             ELSE LET voltage_drop ==
                          RMul(current_a,
                               total_resistance(resistance_at_temp, length_m, num_cores))
                  IN  [kind |-> "return", value |-> voltage_drop,
                       resistance_per_meter_at_20c |-> resistance_per_meter_at_20c]

----------------------------------------------------------------------------
(* determine_cores_required, lines 56-93 *)

(* line 80 with the zero-current test left out *)
zero_current_unguarded(required_current) == FALSE

(* line 80 *)
zero_current(required_current) == required_current = Zero

(* line 89 with < in place of <= *)
impossible_strict(max_allowed_resistance) == RLt(max_allowed_resistance, Zero)

(* line 89 *)
impossible(max_allowed_resistance) == RLeq(max_allowed_resistance, Zero)

(* line 93 with one spare core added *)
cores_returned_plus_one(cores_needed) == PyMax(1, PyRound(cores_needed) + 1)

(* line 93 with int() applied directly, truncating toward zero *)
cores_returned_truncated(cores_needed) ==
    PyMax(1, IF cores_needed[1] >= 0
             THEN cores_needed[1] \div cores_needed[2]
             ELSE -((-cores_needed[1]) \div cores_needed[2]))

(* line 93 *)
cores_returned(cores_needed) == PyMax(1, PyRound(cores_needed))

determine_cores_required(length_m, required_voltage, required_current, cable_type, conductor_spec, min_voltage_percent_drop, temp_c) ==
    IF cable_type \notin DOMAIN CABLE_DATA
       \/ conductor_spec \notin DOMAIN CABLE_DATA[cable_type]
    THEN Raise("ValueError")
    ELSE LET resistance_per_meter_at_20c == CABLE_DATA[cable_type][conductor_spec]
             resistance_at_temp ==
                 resistance_per_meter_at_temp(resistance_per_meter_at_20c, temp_c)
             max_allowed_voltage_drop ==
                 RMul(required_voltage, RDiv(min_voltage_percent_drop, Q(100)))
             early(v) == [kind |-> "return", value |-> v,
                          resistance_per_meter_at_20c |-> resistance_per_meter_at_20c,
                          divided |-> FALSE]
         IN  IF zero_current(required_current)
             THEN early(IF RLeq(Zero, max_allowed_voltage_drop) THEN PyInt(1) ELSE PyInf)
             ELSE IF required_current = Zero
             THEN Raise("ZeroDivisionError")
             ELSE LET max_allowed_resistance ==
                          RDiv(max_allowed_voltage_drop, required_current)
                      single_path_resistance ==
                          RMul(RMul(resistance_at_temp, length_m), Q(2))
                  IN  IF impossible(max_allowed_resistance)
                      THEN [early(PyInf) EXCEPT !.divided = TRUE]
                      ELSE IF max_allowed_resistance = Zero
                      THEN Raise("ZeroDivisionError")
                      ELSE LET cores_needed ==
                                   RDiv(single_path_resistance, max_allowed_resistance)
                           IN  [kind |-> "return",
                                value |-> PyInt(cores_returned(cores_needed)),
                                resistance_per_meter_at_20c |-> resistance_per_meter_at_20c,
                                divided |-> TRUE]

----------------------------------------------------------------------------
(* Input spaces *)

Lengths == {Q(25 * k) : k \in 0..MaxLenUnits}
Currents == {Q(-1), Q(0), <<1, 2>>, Q(1), Q(2)}
Voltages == {Q(-12), Q(0), Q(12), Q(24)}
Percents == {Q(0), Q(5), Q(10)}
Temps == {Q(-260), Q(0), Q(20), Q(40)}
CableTypes == {"alarm", "network", "fibre"}
ConductorSpecs == {"18 AWG", "22 AWG", "24 AWG", "Cat5e", "Cat6", "16 AWG"}
NumCores == 0..MaxCores

NoCall == [op |-> "none"]

----------------------------------------------------------------------------
(* A caller invoking the engine *)

(* A forward call that stores the temperature-adjusted resistance back into
   the catalogue *)
ForwardCaching(Ls, Is, CTs, CSs, Ns, Ts) ==
    /\ call = NoCall
    /\ \E length_m \in Ls, current_a \in Is, cable_type \in CTs,
          conductor_spec \in CSs, num_cores \in Ns, temp_c \in Ts :
          /\ call' = [op |-> "calculate_voltage_drop",
                      length_m |-> length_m, current_a |-> current_a,
                      cable_type |-> cable_type, conductor_spec |-> conductor_spec,
                      num_cores |-> num_cores, temp_c |-> temp_c,
                      res |-> calculate_voltage_drop(length_m, current_a, cable_type,
                                                     conductor_spec, num_cores, temp_c)]
          /\ CABLE_DATA' =
                IF cable_type \in DOMAIN CABLE_DATA
                   /\ conductor_spec \in DOMAIN CABLE_DATA[cable_type]
                THEN [CABLE_DATA EXCEPT ![cable_type][conductor_spec] =
                          resistance_per_meter_at_temp(@, temp_c)]
                ELSE CABLE_DATA
    /\ UNCHANGED <<ALPHA_COPPER, memo,
                   forward_mode, results_labels, messagebox, lastCalc>>

Forward(Ls, Is, CTs, CSs, Ns, Ts) ==
    /\ call = NoCall
    /\ \E length_m \in Ls, current_a \in Is, cable_type \in CTs,
          conductor_spec \in CSs, num_cores \in Ns, temp_c \in Ts :
          call' = [op |-> "calculate_voltage_drop",
                   length_m |-> length_m, current_a |-> current_a,
                   cable_type |-> cable_type, conductor_spec |-> conductor_spec,
                   num_cores |-> num_cores, temp_c |-> temp_c,
                   res |-> calculate_voltage_drop(length_m, current_a, cable_type,
                                                  conductor_spec, num_cores, temp_c)]
    /\ UNCHANGED <<CABLE_DATA, ALPHA_COPPER, memo,
                   forward_mode, results_labels, messagebox, lastCalc>>

Reverse(Ls, Vs, Is, CTs, CSs, Ps, Ts) ==
    /\ call = NoCall
    /\ \E length_m \in Ls, required_voltage \in Vs, required_current \in Is,
          cable_type \in CTs, conductor_spec \in CSs,
          min_voltage_percent_drop \in Ps, temp_c \in Ts :
          call' = [op |-> "determine_cores_required",
                   length_m |-> length_m, required_voltage |-> required_voltage,
                   required_current |-> required_current,
                   cable_type |-> cable_type, conductor_spec |-> conductor_spec,
                   min_voltage_percent_drop |-> min_voltage_percent_drop,
                   temp_c |-> temp_c,
                   res |-> determine_cores_required(length_m, required_voltage,
                               required_current, cable_type, conductor_spec,
                               min_voltage_percent_drop, temp_c)]
    /\ UNCHANGED <<CABLE_DATA, ALPHA_COPPER, memo,
                   forward_mode, results_labels, messagebox, lastCalc>>

(* The caller consumes the outcome; the engine retains nothing. *)
Return ==
    /\ call # NoCall
    /\ call' = NoCall
    /\ UNCHANGED <<CABLE_DATA, ALPHA_COPPER, memo,
                   forward_mode, results_labels, messagebox, lastCalc>>

EngineForward == Forward(Lengths, Currents, CableTypes, ConductorSpecs, NumCores, Temps)

EngineReverse ==
    Reverse(Lengths, Voltages, Currents, CableTypes, ConductorSpecs, Percents, Temps)

EmptyLabel == [t |-> ""]
CurrentDropNote == [t |-> "N/A (Current is assumed constant for voltage drop)"]

Init ==
    /\ CABLE_DATA = CableDataInit
    /\ ALPHA_COPPER = AlphaCopperInit
    /\ call = NoCall
    /\ memo = NoCall
    /\ forward_mode = TRUE
    /\ results_labels = [vd_result |-> EmptyLabel, vd_percent |-> EmptyLabel,
                         cd_result |-> CurrentDropNote,
                         cores_required |-> EmptyLabel, wiring_rec |-> EmptyLabel]
    /\ messagebox = [t |-> ""]
    /\ lastCalc = [outcome |-> "none"]

Next == EngineForward \/ EngineReverse \/ Return

Spec == Init /\ [][Next]_vars

----------------------------------------------------------------------------
(* Vocabulary of the properties *)

IsFwd == call.op = "calculate_voltage_drop"
IsRev == call.op = "determine_cores_required"
Returned == call.res.kind = "return"

(* The catalogue as tabulated in the specification, section 4.1 *)
TabulatedPairs ==
    {<<"alarm", "18 AWG">>, <<"alarm", "22 AWG">>, <<"alarm", "24 AWG">>,
     <<"network", "Cat5e">>, <<"network", "Cat6">>}

TabulatedResistance(family, gauge_id) ==
    CASE gauge_id = "18 AWG" -> Rat(209, 10000)
      [] gauge_id = "22 AWG" -> Rat(333, 10000)
      [] gauge_id = "24 AWG" -> Rat(529, 10000)
      [] gauge_id = "Cat5e"  -> Rat(938, 10000)
      [] gauge_id = "Cat6"   -> Rat(700, 10000)

Catalogued == <<call.cable_type, call.conductor_spec>> \in TabulatedPairs

(* source_voltage * max_drop_percent / 100 of the reverse request in call *)
AllowedDrop == RDiv(RMul(call.required_voltage, call.min_voltage_percent_drop), Q(100))

(* The forward drop of the reverse request in call when wired with n cores *)
DropWithCores(n) ==
    calculate_voltage_drop(call.length_m, call.required_current, call.cable_type,
                           call.conductor_spec, n, call.temp_c).value

(* 1 + ALPHA * (temp_c - 20) *)
TempFactor(temp_c) == RAdd(Q(1), RMul(Rat(393, 100000), RSub(temp_c, Q(20))))

(* cores_needed as the specification states it, section 4.4 steps 4-6 *)
CoresNeededOfRequest ==
    RDiv(RMul(RMul(RMul(TabulatedResistance(call.cable_type, call.conductor_spec),
                        TempFactor(call.temp_c)),
                   call.length_m), Q(2)),
         RDiv(AllowedDrop, call.required_current))

CountReturned == IsRev /\ Returned /\ call.res.value.type = "int"

----------------------------------------------------------------------------
(* C1: for a reverse request with a catalogued cable, positive length,
   positive current and a positive allowed drop, the returned core count n
   keeps the forward drop within the allowed drop:
   calculate_voltage_drop(..., n, ...) <= source_voltage * max_drop_percent / 100.
   The code rounds cores_needed to the nearest integer, so this is violated. *)
C1_DropWithinAllowed ==
    (/\ IsRev /\ Catalogued
     /\ RLt(Zero, call.length_m) /\ RLt(Zero, call.required_current)
     /\ RLt(Zero, AllowedDrop))
    => /\ CountReturned
       /\ RLeq(DropWithCores(call.res.value.n), AllowedDrop)

(* C2: the returned count is minimal: when it is greater than 1 (positive
   current, positive allowed drop), one core fewer exceeds the allowed drop. *)
C2_CountMinimal ==
    (/\ IsRev /\ Catalogued
     /\ RLt(Zero, call.required_current) /\ RLt(Zero, AllowedDrop)
     /\ CountReturned /\ call.res.value.n > 1)
    => RLt(AllowedDrop, DropWithCores(call.res.value.n - 1))

C2_Witness ==
    /\ IsRev /\ Catalogued
    /\ RLt(Zero, call.required_current) /\ RLt(Zero, AllowedDrop)
    /\ CountReturned /\ call.res.value.n > 2
    /\ RLt(AllowedDrop, DropWithCores(call.res.value.n - 1))

(* C3 as stated: with max_drop_percent = 0 or source_voltage = 0 the solver
   returns the infeasible marker whatever the required current. *)
C3_ZeroBudgetInfeasible ==
    (/\ IsRev /\ Catalogued
     /\ (call.min_voltage_percent_drop = Zero \/ call.required_voltage = Zero))
    => /\ Returned
       /\ call.res.value = PyInf

(* C3 amended: with max_drop_percent = 0 or source_voltage = 0 and a
   required current different from 0 the solver returns the infeasible
   marker, whatever the length and temperature. *)
C3_ZeroBudgetInfeasibleNonZeroCurrent ==
    (/\ IsRev /\ Catalogued
     /\ call.required_current # Zero
     /\ (call.min_voltage_percent_drop = Zero \/ call.required_voltage = Zero))
    => /\ Returned
       /\ call.res.value = PyInf

C3_Witness ==
    /\ IsRev /\ Catalogued
    /\ call.required_current # Zero
    /\ call.min_voltage_percent_drop = Zero
    /\ call.required_voltage # Zero
    /\ Returned /\ call.res.value = PyInf

(* C4 as stated: a forward request with a catalogued cable, length > 0,
   current >= 0 and num_cores >= 1 yields a drop >= 0 at any temperature. *)
C4_DropNonNegative ==
    (/\ IsFwd /\ Catalogued
     /\ RLt(Zero, call.length_m) /\ RLeq(Zero, call.current_a)
     /\ call.num_cores >= 1)
    => /\ Returned
       /\ RLeq(Zero, call.res.value)

(* C4 amended: the drop is >= 0 for such a request whenever the temperature
   is at least 20 - 1/ALPHA_COPPER (about -234.45 C), i.e. whenever
   1 + ALPHA_COPPER * (temp_c - 20) >= 0. *)
C4_DropNonNegativeAboveFloor ==
    (/\ IsFwd /\ Catalogued
     /\ RLt(Zero, call.length_m) /\ RLeq(Zero, call.current_a)
     /\ call.num_cores >= 1
     /\ RLeq(Zero, TempFactor(call.temp_c)))
    => /\ Returned
       /\ RLeq(Zero, call.res.value)

C4_Witness ==
    /\ IsFwd /\ Catalogued
    /\ RLt(Zero, call.length_m) /\ RLt(Zero, call.current_a)
    /\ call.num_cores >= 1
    /\ RLt(call.temp_c, Q(20)) /\ RLeq(Zero, TempFactor(call.temp_c))
    /\ Returned /\ RLt(Zero, call.res.value)

(* C5: with required_current = 0 and a catalogued cable the solver returns
   1 core when the allowed drop is >= 0 and the infeasible marker otherwise,
   whatever the length, cable and temperature, and performs no division by
   the current. *)
C5_ZeroCurrent ==
    (IsRev /\ Catalogued /\ call.required_current = Zero)
    => /\ Returned
       /\ ~call.res.divided
       /\ call.res.value = (IF RLeq(Zero, AllowedDrop) THEN PyInt(1) ELSE PyInf)

C5_Witness ==
    /\ IsRev /\ Catalogued /\ call.required_current = Zero
    /\ RLt(AllowedDrop, Zero)
    /\ Returned /\ call.res.value = PyInf

(* The forward drop of the forward request in call with length, current and
   core count replaced *)
DropOf(length_m, current_a, num_cores) ==
    calculate_voltage_drop(length_m, current_a, call.cable_type,
                           call.conductor_spec, num_cores, call.temp_c).value

(* C6: the forward drop is inversely proportional to num_cores and
   proportional to the current and to the length:
   drop(L, I, N) * N = drop(L, I, 1), drop(L, k*I, N) = k * drop(L, I, N),
   drop(k*L, I, N) = k * drop(L, I, N); a zero current or a zero length
   gives a zero drop and no error. *)
C6_Proportional ==
    (IsFwd /\ Catalogued /\ call.num_cores >= 1)
    => /\ Returned
       /\ RMul(call.res.value, Q(call.num_cores)) = DropOf(call.length_m, call.current_a, 1)
       /\ \A k \in 1..MaxScale :
             /\ DropOf(call.length_m, RMul(Q(k), call.current_a), call.num_cores)
                  = RMul(Q(k), call.res.value)
             /\ DropOf(RMul(Q(k), call.length_m), call.current_a, call.num_cores)
                  = RMul(Q(k), call.res.value)
       /\ (call.current_a = Zero \/ call.length_m = Zero) => call.res.value = Zero

C6_Witness ==
    /\ IsFwd /\ Catalogued /\ call.num_cores = MaxCores
    /\ call.length_m = Q(50) /\ call.current_a = Half /\ call.temp_c = Q(40)
    /\ Returned
    /\ RMul(call.res.value, Q(MaxCores)) = DropOf(Q(50), Half, 1)
    /\ call.res.value # Zero

(* C7: both operations use exactly the tabulated resistance for the five
   catalogued (family, gauge) pairs and fail with the invalid-cable error,
   returning nothing, for every other pair. *)
C7_Lookup ==
    (IsFwd \/ IsRev)
    => IF Catalogued
       THEN /\ call.res # Raise("ValueError")
            /\ Returned =>
                  call.res.resistance_per_meter_at_20c
                    = TabulatedResistance(call.cable_type, call.conductor_spec)
       ELSE call.res = Raise("ValueError")

C7_Witness ==
    /\ IsRev
    /\ call.cable_type = "alarm" /\ call.conductor_spec = "Cat5e"
    /\ call.res = Raise("ValueError")

(* C10: with a non-zero current and a positive max_allowed_resistance the
   solver returns max(1, k), k the whole number nearest to cores_needed:
   the result is within 0.5 of cores_needed when cores_needed >= 0.5 and is
   1 when cores_needed < 0.5; 100 m, 12 V, 1 A, network Cat5e, 10 %, 20 C
   gives 16. *)
C10_RoundsToNearest ==
    (/\ IsRev /\ Catalogued
     /\ call.required_current # Zero
     /\ RLt(Zero, RDiv(AllowedDrop, call.required_current)))
    => /\ CountReturned
       /\ call.res.value.n >= 1
       /\ RLeq(Half, CoresNeededOfRequest)
             => RLeq(RAbs(RSub(Q(call.res.value.n), CoresNeededOfRequest)), Half)
       /\ RLt(CoresNeededOfRequest, Half) => call.res.value.n = 1
       /\ (/\ call.length_m = Q(100) /\ call.required_voltage = Q(12)
            /\ call.required_current = Q(1) /\ call.conductor_spec = "Cat5e"
            /\ call.min_voltage_percent_drop = Q(10) /\ call.temp_c = Q(20))
           => call.res.value.n = 16

C10_Witness ==
    /\ IsRev /\ call.cable_type = "network" /\ call.conductor_spec = "Cat5e"
    /\ call.length_m = Q(100) /\ call.required_voltage = Q(12)
    /\ call.required_current = Q(1)
    /\ call.min_voltage_percent_drop = Q(10) /\ call.temp_c = Q(20)
    /\ Returned /\ call.res.value = PyInt(16)
    /\ CoresNeededOfRequest = <<469, 30>>

----------------------------------------------------------------------------
(* CableCalculatorGUI: the mode radio buttons and the Calculate handler *)

(* Content of a text entry: a string float()/int() parses to v, or one it
   rejects with ValueError (the entries start empty, lines 194 and 213). *)
Entry(v) == [ok |-> TRUE, v |-> v]
BadEntry == [ok |-> FALSE]

NotApplicable == [t |-> "N/A"]
NoDialog == [t |-> ""]

(* f"{x:.4f} V" and f"{x:.2f} %": x rounded to the given number of decimals,
   kept as the integer count of 10^-digits units *)
FormatFixed(x, digits, unit) ==
    [t |-> "fixed", digits |-> digits, unit |-> unit,
     scaled |-> PyRound(RMul(x, Q(IF digits = 4 THEN 10000 ELSE 100)))]

(* f"{cores_needed}" *)
FormatValue(v) == [t |-> "str", value |-> v]

(* cores_needed == 1, cores_needed > 1, cores_needed == float("inf") *)
PyEqOne(v) == v.type = "int" /\ v.n = 1
PyGtOne(v) == IF v.type = "int" THEN v.n > 1 ELSE TRUE
PyEqInf(v) == v.type = "float"

(* lines 286-291 with the last test written "cores_needed is float('inf')",
   which is false for the object the solver returns *)
WiringRecommendationIdentityTest(cores_needed, conductor_spec, old) ==
    IF PyEqOne(cores_needed)
    THEN [t |-> "Use 1 core of {conductor_spec}", spec |-> conductor_spec]
    ELSE IF PyGtOne(cores_needed) /\ ~PyEqInf(cores_needed)
    THEN [t |-> "Use {cores_needed} parallel cores of {conductor_spec}",
          n |-> cores_needed.n, spec |-> conductor_spec]
    ELSE old

(* lines 286-291 *)
WiringRecommendation(cores_needed, conductor_spec, old) ==
    IF PyEqOne(cores_needed)
    THEN [t |-> "Use 1 core of {conductor_spec}", spec |-> conductor_spec]
    ELSE IF PyGtOne(cores_needed) /\ ~PyEqInf(cores_needed)
    THEN [t |-> "Use {cores_needed} parallel cores of {conductor_spec}",
          n |-> cores_needed.n, spec |-> conductor_spec]
    ELSE IF PyEqInf(cores_needed)
    THEN [t |-> "Impossible to meet requirements with this cable."]
    ELSE old

(* lines 256-298 *)
calculate(e_length, e_voltage, e_current, e_num_cores, e_temp, cable_type, conductor_spec) ==
    IF ~(e_length.ok /\ e_voltage.ok /\ e_current.ok /\ e_num_cores.ok /\ e_temp.ok)
    THEN /\ messagebox' = [t |-> "Input Error"]
         /\ lastCalc' = [outcome |-> "raise"]
         /\ UNCHANGED results_labels
    ELSE LET length == e_length.v
             voltage == e_voltage.v
             current == e_current.v
             num_cores == e_num_cores.v
             temp == e_temp.v
         IN  IF forward_mode
             THEN LET r == calculate_voltage_drop(length, current, cable_type,
                                                  conductor_spec, num_cores, temp)
                  IN  IF r.kind = "raise"
                      THEN /\ messagebox' = [t |-> IF r.exc = "ValueError"
                                                   THEN "Input Error" ELSE "Error"]
                           /\ lastCalc' = [outcome |-> "raise"]
                           /\ UNCHANGED results_labels
                      ELSE LET voltage_drop == r.value
                               voltage_drop_percent ==
                                   IF voltage # Zero
                                   THEN RMul(RDiv(voltage_drop, voltage), Q(100))
                                   ELSE Zero
                           IN  /\ results_labels' =
                                     [vd_result |-> FormatFixed(voltage_drop, 4, "V"),
                                      vd_percent |-> FormatFixed(voltage_drop_percent, 2, "%"),
                                      cores_required |-> NotApplicable,
                                      wiring_rec |-> NotApplicable,
                                      cd_result |-> CurrentDropNote]
                               /\ messagebox' = NoDialog
                               /\ lastCalc' = [outcome |-> "forward"]
             ELSE LET min_voltage_percent_drop == Q(10)
                      r == determine_cores_required(length, voltage, current, cable_type,
                               conductor_spec, min_voltage_percent_drop, temp)
                  IN  IF r.kind = "raise"
                      THEN /\ messagebox' = [t |-> IF r.exc = "ValueError"
                                                   THEN "Input Error" ELSE "Error"]
                           /\ lastCalc' = [outcome |-> "raise"]
                           /\ UNCHANGED results_labels
                      ELSE LET cores_needed == r.value
                           IN  /\ results_labels' =
                                     [vd_result |-> NotApplicable,
                                      vd_percent |-> NotApplicable,
                                      cores_required |-> FormatValue(cores_needed),
                                      wiring_rec |->
                                          WiringRecommendation(cores_needed, conductor_spec,
                                                               results_labels.wiring_rec),
                                      cd_result |-> CurrentDropNote]
                               /\ messagebox' = NoDialog
                               /\ lastCalc' = [outcome |-> "reverse",
                                               cores_needed |-> cores_needed,
                                               conductor_spec |-> conductor_spec]

GuiLengths == {BadEntry} \cup {Entry(Q(50 * k)) : k \in 0..2}
GuiVoltages == {Entry(Q(0)), Entry(Q(12))}
GuiCurrents == {Entry(Q(0)), Entry(Q(1)), Entry(Q(2))}
GuiNumCores == {BadEntry} \cup {Entry(n) : n \in 0..2}
GuiTemps == {Entry(Q(-260)), Entry(Q(20))}
GuiCableTypes == {"alarm", "network"}
GuiConductorSpecs == {"18 AWG", "Cat5e", "Cat6", ""}

Calculate ==
    /\ \E e_length \in GuiLengths, e_voltage \in GuiVoltages, e_current \in GuiCurrents,
          e_num_cores \in GuiNumCores, e_temp \in GuiTemps,
          cable_type \in GuiCableTypes, conductor_spec \in GuiConductorSpecs :
          calculate(e_length, e_voltage, e_current, e_num_cores, e_temp,
                    cable_type, conductor_spec)
    /\ UNCHANGED <<CABLE_DATA, ALPHA_COPPER, call, memo, forward_mode>>

(* The Forward/Reverse radio buttons, lines 160-162 *)
SelectMode ==
    /\ \E value \in BOOLEAN : value # forward_mode /\ forward_mode' = value
    /\ UNCHANGED <<CABLE_DATA, ALPHA_COPPER, call, memo,
                   results_labels, messagebox, lastCalc>>

NextGUI == Calculate \/ SelectMode

SpecGUI == Init /\ [][NextGUI]_vars

(* C8: every value the solver returns is an integer >= 1 or the infeasible
   marker (never both), and the reverse branch of calculate shows exactly the
   recommendation that belongs to it: "Use 1 core of {spec}" for 1,
   "Use {n} parallel cores of {spec}" for n > 1, "Impossible to meet
   requirements with this cable." for infeasible; the label is never left
   unset or stale. *)
C8_Recommendation ==
    lastCalc.outcome = "reverse"
    => LET v == lastCalc.cores_needed
       IN  /\ \/ v.type = "int" /\ v.n >= 1
              \/ v = PyInf
           /\ v = PyInf => v.type # "int"
           /\ results_labels.wiring_rec =
                (IF v = PyInf
                 THEN [t |-> "Impossible to meet requirements with this cable."]
                 ELSE IF v.n = 1
                 THEN [t |-> "Use 1 core of {conductor_spec}",
                       spec |-> lastCalc.conductor_spec]
                 ELSE [t |-> "Use {cores_needed} parallel cores of {conductor_spec}",
                       n |-> v.n, spec |-> lastCalc.conductor_spec])
           /\ results_labels.cores_required = FormatValue(v)

C8_Witness ==
    /\ lastCalc.outcome = "reverse"
    /\ lastCalc.cores_needed = PyInf
    /\ results_labels.wiring_rec =
         [t |-> "Impossible to meet requirements with this cable."]

----------------------------------------------------------------------------
(* A caller repeating requests: memo keeps one earlier call and its outcome *)

FrameLengths == {Q(50), Q(100)}
FrameCurrents == {Q(0), Q(1)}
FrameVoltages == {Q(0), Q(12)}
FramePercents == {Q(5), Q(10)}
FrameTemps == {Q(0), Q(20)}
FrameCableTypes == {"alarm", "fibre"}
FrameConductorSpecs == {"18 AWG", "Cat5e"}
FrameNumCores == 1..2

FrameForward ==
    Forward(FrameLengths, FrameCurrents, FrameCableTypes, FrameConductorSpecs,
            FrameNumCores, FrameTemps)

FrameReverse ==
    Reverse(FrameLengths, FrameVoltages, FrameCurrents, FrameCableTypes,
            FrameConductorSpecs, FramePercents, FrameTemps)

Remember ==
    /\ call # NoCall
    /\ memo = NoCall
    /\ memo' = call
    /\ UNCHANGED <<CABLE_DATA, ALPHA_COPPER, call,
                   forward_mode, results_labels, messagebox, lastCalc>>

NextFrame == FrameForward \/ FrameReverse \/ Return \/ Remember

SpecFrame == Init /\ [][NextFrame]_vars

SameRequest(a, b) == [a EXCEPT !.res = NoCall] = [b EXCEPT !.res = NoCall]

(* C9: no call changes CABLE_DATA or ALPHA_COPPER, whatever the sequence of
   successful and failing calls, and a request repeated later returns the
   identical outcome. *)
C9_CatalogueFrame ==
    /\ CABLE_DATA = CableDataInit
    /\ ALPHA_COPPER = AlphaCopperInit
    /\ (memo # NoCall /\ call # NoCall /\ SameRequest(memo, call))
       => call.res = memo.res

C9_Witness ==
    /\ memo # NoCall /\ call # NoCall
    /\ memo.op = "determine_cores_required"
    /\ SameRequest(memo, call)
    /\ call.res.kind = "return" /\ call.res.value = PyInt(2)
    /\ CABLE_DATA = CableDataInit

====
